---- MODULE Spec2Model ----
(***************************************************************************)
(* GPX Viewer: the live positioning / follow-lock engine.                  *)
(*                                                                         *)
(* The repository holds two application scripts: src/app.js (separate GPS, *)
(* Lock and Compass buttons) and src/unnamed/part_001 (unified Start       *)
(* button with fine-grained toggles, tracking zoom, accuracy gates).  The  *)
(* variable build says which script the page runs; it is fixed by Init.    *)
(* Operators named as in the source model src/unnamed/part_001; operators  *)
(* with the prefix app_ model the function of the same name in src/app.js. *)
(*                                                                         *)
(* Geography is a line: a point is a number of metres north of an origin,  *)
(* so the great-circle distance of two points is the absolute difference.  *)
(* Leaflet and the browser are collaborators.  The map is its zoom and the *)
(* pending zoomend event of a camera command; what getBounds().contains    *)
(* answers is an input of each handler run.  No handler reads whether a    *)
(* drag is under way, so dragstart and dragend are independent events.     *)
(* The platform is the set of registered position watches, the orientation *)
(* listener, the pending permission prompts and the gpx parameter of the   *)
(* page's address; a filename is a sequence of characters.  The status     *)
(* badge is presentation only and is not part of the state.  Toasts,       *)
(* camera commands and the samples fed to updateHeading are outputs: a     *)
(* handler run returns them in the field out of the world it returns, next *)
(* to the objects it changed.                                              *)
(***************************************************************************)
EXTENDS Integers, Sequences, FiniteSets, TLC

(* ---------------- bounds of the model ---------------- *)
ZoomAbove == 1
MaxWatches == 2
MaxPending == 1
MaxStem == 3
MaxChain == 3

(* ---------------- CONFIG and literal thresholds ---------------- *)
defaultZoom == 13
maxZoom == 19
minMovement == 3
minHeadingChange == 5
trackingZoom == 16
MarkerAccuracy == 100
FollowAccuracy == 60
CircleAccuracy == 500
HistoryLimit == 5

(* ---------------- values ---------------- *)
None == <<>>
Some(v) == <<v>>
IsSome(o) == o # <<>>
Val(o) == o[1]

(* Points of the line: an origin, a point closer to it than minMovement, and *)
(* a point exactly minMovement away (and so one metre from the second).     *)
Points == {0, minMovement - 1, minMovement}
Accuracies == {40, 80, 150}
GpsHeadings == {None, Some(90)}
ZoomLevels == {z \in {defaultZoom} \cup (trackingZoom..(trackingZoom + ZoomAbove)) : z <= maxZoom}
Builds == {"app.js", "part_001"}
Positions == [latlng : Points, accuracy : Accuracies, heading : GpsHeadings]

VARIABLES build, state, elements, map, platform

vars == <<build, state, elements, map, platform>>

(* The objects a handler reads and writes, threaded through its calls. *)
World == [state |-> state, elements |-> elements, map |-> map, platform |-> platform,
          out |-> [accepted |-> FALSE, cam |-> <<>>, toasts |-> <<>>, headings |-> <<>>],
          inBounds |-> TRUE]

(* ---------------- collaborators ---------------- *)

getZoom(w) == w.map.zoom

(* state.map.getBounds().contains(latlng) *)
boundsContains(w, latlng) == w.inBounds

(* map.setView: moves the camera; a zoom change makes the map emit zoomend. *)
setView(w, latlng, zoom, animate) ==
    [w EXCEPT !.map.zoom = zoom,
              !.map.zoomEndPending = @ \/ (zoom # w.map.zoom),
              !.out.cam = Append(@, [center |-> latlng, zoom |-> zoom,
                                     animate |-> animate, from |-> w.map.zoom])]

showToast(w, msg) == [w EXCEPT !.out.toasts = Append(@, msg)]

FreshWatchId(w) == CHOOSE i \in 1..(MaxWatches + 2) : i \notin w.platform.watches

watchPosition(w) ==
    [w EXCEPT !.platform.watches = @ \cup {FreshWatchId(w)},
              !.state.watchId = Some(FreshWatchId(w))]

clearWatch(w, id) == [w EXCEPT !.platform.watches = @ \ {id}]

(* ---------------- geo math ---------------- *)

getDistance(p1, p2) == IF p1 > p2 THEN p1 - p2 ELSE p2 - p1

(* ---------------- src/unnamed/part_001 ---------------- *)

updateUserMarker_keepsOldPlace(w, latlng, acc) ==
    LET w1 == IF w.state.userMarker = None
              THEN [w EXCEPT !.state.userMarker = Some([latlng |-> latlng, arrow |-> None])]
              ELSE w
    IN IF acc < CircleAccuracy
       THEN [w1 EXCEPT !.state.accuracyCircle = Some([latlng |-> latlng, radius |-> acc])]
       ELSE w1

updateUserMarker(w, latlng, acc) ==
    LET w1 == IF w.state.userMarker = None
              THEN [w EXCEPT !.state.userMarker = Some([latlng |-> latlng, arrow |-> None])]
              ELSE [w EXCEPT !.state.userMarker = Some([Val(@) EXCEPT !.latlng = latlng])]
    IN IF acc < CircleAccuracy
       THEN [w1 EXCEPT !.state.accuracyCircle = Some([latlng |-> latlng, radius |-> acc])]
       ELSE w1

(* Rotates the arrow element, which exists only while the marker is on the map. *)
updateHeading(w, h) ==
    LET w0 == [w EXCEPT !.out.headings = Append(@, h)]
    IN IF w0.state.userMarker # None
       THEN [w0 EXCEPT !.state.userMarker = Some([Val(@) EXCEPT !.arrow = Some(h)])]
       ELSE w0

startGps(w) ==
    IF ~w.platform.geolocation
    THEN showToast(w, "GPS not supported")
    ELSE [watchPosition(w) EXCEPT !.state.isGpsActive = TRUE]

stopGps_keepsCircle(w) ==
    LET w1 == IF w.state.watchId # None
              THEN [clearWatch(w, Val(w.state.watchId)) EXCEPT !.state.watchId = None]
              ELSE w
        w2 == IF w1.state.userMarker # None
              THEN [w1 EXCEPT !.state.userMarker = None]
              ELSE w1
    IN [w2 EXCEPT !.state.isGpsActive = FALSE,
                  !.state.lastPosition = None,
                  !.state.hasInitialZoomed = FALSE]

stopGps(w) ==
    LET w1 == IF w.state.watchId # None
              THEN [clearWatch(w, Val(w.state.watchId)) EXCEPT !.state.watchId = None]
              ELSE w
        w2 == IF w1.state.userMarker # None
              THEN [w1 EXCEPT !.state.userMarker = None, !.state.accuracyCircle = None]
              ELSE w1
    IN [w2 EXCEPT !.state.isGpsActive = FALSE,
                  !.state.lastPosition = None,
                  !.state.hasInitialZoomed = FALSE]

Rejected_le(w, latlng) ==
    /\ w.state.lastPosition # None
    /\ getDistance(latlng, Val(w.state.lastPosition)) <= minMovement

Rejected_inverted(w, latlng) ==
    /\ w.state.lastPosition # None
    /\ getDistance(latlng, Val(w.state.lastPosition)) > minMovement

(* The movement filter of onPositionUpdate: the early return. *)
Rejected(w, latlng) ==
    /\ w.state.lastPosition # None
    /\ getDistance(latlng, Val(w.state.lastPosition)) < minMovement

ShouldFollow_unlocked(w, acc) == acc < FollowAccuracy

ShouldFollow_offscreen(w, acc) ==
    w.state.isLocked /\ acc < FollowAccuracy /\ ~w.inBounds

(* The stable-lock gate of onPositionUpdate. *)
ShouldFollow(w, acc) == w.state.isLocked /\ acc < FollowAccuracy

GpsHeadingInUse_always(w) == TRUE

(* The heading of a fix is used only while the compass is not enabled. *)
GpsHeadingInUse(w) == ~w.state.isCompassEnabled

FollowAnimate_always(w, latlng) == TRUE

(* The animate option of the follow setView of onPositionUpdate: a fix outside *)
(* the map bounds is jumped to until the initial zoom has been done.           *)
FollowAnimate(w, latlng) ==
    IF ~boundsContains(w, latlng)
    THEN (IF ~w.state.hasInitialZoomed THEN FALSE ELSE TRUE)
    ELSE TRUE

(* JavaScript truthiness of coords.heading: null and 0 are both falsy. *)
Truthy(h) == h # None /\ Val(h) # 0

onPositionUpdate(w, pos) ==
    LET latlng == pos.latlng
        acc == pos.accuracy
    IN IF Rejected(w, latlng) THEN w
       ELSE
       LET w1 == [w EXCEPT !.state.lastPosition = Some(latlng), !.out.accepted = TRUE]
           w2 == IF acc < MarkerAccuracy THEN updateUserMarker(w1, latlng, acc) ELSE w1
           currentZoom == getZoom(w2)
           targetZoom == IF ~w2.state.hasInitialZoomed \/ currentZoom < trackingZoom
                         THEN trackingZoom ELSE currentZoom
           w3 == IF ShouldFollow(w2, acc)
                 THEN [setView(w2, latlng, targetZoom, FollowAnimate(w2, latlng))
                       EXCEPT !.state.hasInitialZoomed = TRUE]
                 ELSE w2
           w4 == IF GpsHeadingInUse(w3) /\ Truthy(pos.heading)
                 THEN updateHeading(w3, Val(pos.heading)) ELSE w3
       IN w4

onPositionError_stopsWhenDenied(w, code) ==
    IF code = 1 THEN stopGps(showToast(w, "Location denied"))
    ELSE showToast(w, "Location error")

onPositionError(w, code) ==
    showToast(w, IF code = 1 THEN "Location denied" ELSE "Location error")

LockTargetZoom_alternates(currentZoom, tracking) ==
    IF currentZoom = tracking THEN tracking + 1 ELSE tracking

(* The zoom of the setView of setLockMode. *)
LockTargetZoom(currentZoom, tracking) ==
    IF currentZoom < tracking THEN tracking ELSE currentZoom

setLockMode(w, enabled) ==
    LET w1 == [w EXCEPT !.state.isLocked = enabled]
    IN IF enabled /\ w1.state.lastPosition # None
       THEN LET currentZoom == getZoom(w1)
                targetZoom == LockTargetZoom(currentZoom, trackingZoom)
                p == Val(w1.state.lastPosition)
            IN IF ~boundsContains(w1, p)
               THEN setView(w1, p, targetZoom, FALSE)
               ELSE setView(w1, p, targetZoom, TRUE)
       ELSE w1

startCompassListening(w) ==
    [w EXCEPT !.platform.listening = TRUE, !.state.isCompassEnabled = TRUE]

enableCompass(w) ==
    CASE w.platform.orientation = "none" -> w
      [] w.platform.orientation = "prompt" -> [w EXCEPT !.platform.pending = @ + 1]
      [] OTHER -> startCompassListening(w)

disableCompass(w) ==
    [w EXCEPT !.platform.listening = FALSE, !.state.isCompassEnabled = FALSE]

permissionSettled_listensAnyway(w, res) ==
    startCompassListening([w EXCEPT !.platform.pending = @ - 1])

(* The permission promise settles: granted, denied, or rejected. *)
permissionSettled(w, res) ==
    LET w1 == [w EXCEPT !.platform.pending = @ - 1]
    IN CASE res = "granted" -> startCompassListening(w1)
         [] res = "denied" -> showToast(w1, "Compass denied")
         [] OTHER -> showToast(w1, "Compass error")

toggleFeature_withoutAutoStop(w, feature, enabled) ==
    CASE feature = "gps" -> IF enabled THEN startGps(w) ELSE stopGps(w)
      [] feature = "lock" -> setLockMode(w, enabled)
      [] OTHER -> IF enabled THEN enableCompass(w) ELSE disableCompass(w)

toggleFeature_withoutLock(w, feature, enabled) ==
    LET w1 == CASE feature = "gps" -> IF enabled THEN startGps(w) ELSE stopGps(w)
                [] feature = "lock" -> w
                [] OTHER -> IF enabled THEN enableCompass(w) ELSE disableCompass(w)
    IN IF /\ ~w1.elements.toggleGps
          /\ ~w1.elements.toggleLock
          /\ ~w1.elements.toggleHeading
          /\ w1.state.isStarted
       THEN [w1 EXCEPT !.state.isStarted = FALSE, !.elements.btnStart = FALSE]
       ELSE w1

toggleFeature(w, feature, enabled) ==
    LET w1 == CASE feature = "gps" -> IF enabled THEN startGps(w) ELSE stopGps(w)
                [] feature = "lock" -> setLockMode(w, enabled)
                [] OTHER -> IF enabled THEN enableCompass(w) ELSE disableCompass(w)
    IN IF /\ ~w1.elements.toggleGps
          /\ ~w1.elements.toggleLock
          /\ ~w1.elements.toggleHeading
          /\ w1.state.isStarted
       THEN [w1 EXCEPT !.state.isStarted = FALSE, !.elements.btnStart = FALSE]
       ELSE w1

toggleUnifiedStart(w) ==
    LET w0 == [w EXCEPT !.state.isStarted = ~@]
    IN IF w0.state.isStarted
       THEN LET u == [w0 EXCEPT !.elements.btnStart = TRUE,
                                !.elements.toggleGps = TRUE,
                                !.elements.toggleLock = TRUE,
                                !.elements.toggleHeading = TRUE]
            IN toggleFeature(toggleFeature(toggleFeature(u, "gps", TRUE), "lock", TRUE),
                             "heading", TRUE)
       ELSE LET u == [w0 EXCEPT !.elements.btnStart = FALSE,
                                !.elements.toggleGps = FALSE,
                                !.elements.toggleLock = FALSE,
                                !.elements.toggleHeading = FALSE]
            IN toggleFeature(toggleFeature(toggleFeature(u, "gps", FALSE), "lock", FALSE),
                             "heading", FALSE)

dragstartHandler_resetsZoomFlag(w) ==
    IF w.state.isStarted
    THEN [setLockMode(w, FALSE) EXCEPT !.elements.toggleLock = FALSE,
                                       !.state.hasInitialZoomed = FALSE]
    ELSE w

dragstartHandler_keepsCheckbox(w) ==
    IF w.state.isStarted THEN setLockMode(w, FALSE) ELSE w

dragstartHandler(w) ==
    IF w.state.isStarted
    THEN [setLockMode(w, FALSE) EXCEPT !.elements.toggleLock = FALSE]
    ELSE w

dragendZoomendHandler_unlocks(w) ==
    IF w.state.isStarted /\ w.state.isGpsActive
    THEN [setLockMode(w, FALSE) EXCEPT !.elements.toggleLock = FALSE]
    ELSE w

dragendZoomendHandler(w) ==
    IF w.state.isStarted /\ w.state.isGpsActive
    THEN [setLockMode(w, TRUE) EXCEPT !.elements.toggleLock = TRUE]
    ELSE w


(* The orientation event of the listener: alpha = 0 gives 360 - 0 = 360. *)
onOrientation(w, e) ==
    LET h == IF Truthy(e.webkitCompassHeading) THEN e.webkitCompassHeading
             ELSE IF e.absolute
                  THEN Some(360 - (IF e.alpha = None THEN 0 ELSE Val(e.alpha)))
                  ELSE None
    IN IF h # None THEN updateHeading(w, Val(h)) ELSE w

(* ---------------- src/app.js ---------------- *)

shouldUpdatePosition(newPos, oldPos) == getDistance(newPos, oldPos) >= minMovement

(* On the line the forward azimuth is 0 (north, or no movement) or 180. *)
getBearing(from, to) == IF to < from THEN 180 ELSE 0

computeHeadingFromMovement(w) ==
    IF w.state.lastPosition = None \/ Len(w.state.positionHistory) < 1
    THEN None
    ELSE Some(getBearing(w.state.positionHistory[Len(w.state.positionHistory)],
                         Val(w.state.lastPosition)))

app_updateUserMarker(w, latlng, accuracy) ==
    LET w1 == IF w.state.userMarker = None
              THEN [w EXCEPT !.state.userMarker = Some([latlng |-> latlng, arrow |-> None])]
              ELSE [w EXCEPT !.state.userMarker = Some([Val(@) EXCEPT !.latlng = latlng])]
    IN IF accuracy # 0 /\ accuracy < CircleAccuracy
       THEN [w1 EXCEPT !.state.accuracyCircle = Some([latlng |-> latlng, radius |-> accuracy])]
       ELSE w1

Abs(x) == IF x < 0 THEN -x ELSE x

app_updateHeading(w, heading) ==
    LET diff == Abs(heading - Val(w.state.lastHeading))
        w0 == [w EXCEPT !.out.headings = Append(@, heading)]
    IN IF /\ w.state.lastHeading # None
          /\ diff < minHeadingChange
          /\ diff < 360 - minHeadingChange
       THEN w0
       ELSE LET w1 == [w0 EXCEPT !.state.lastHeading = Some(heading)]
            IN IF w1.state.userMarker # None
               THEN [w1 EXCEPT !.state.userMarker = Some([Val(@) EXCEPT !.arrow = Some(heading)])]
               ELSE w1

app_setLockMode(w, enabled) ==
    LET w1 == [w EXCEPT !.state.isLocked = enabled, !.state.wasManuallyPanned = FALSE]
    IN IF enabled /\ w1.state.lastPosition # None
       THEN setView(w1, Val(w1.state.lastPosition), getZoom(w1), TRUE)
       ELSE w1

toggleLock(w) == app_setLockMode(w, ~w.state.isLocked)

app_startCompassListening(w) ==
    [w EXCEPT !.platform.listening = TRUE,
              !.state.isCompassEnabled = TRUE,
              !.state.hasCompassPermission = TRUE]

app_enableCompass(w) ==
    CASE w.platform.orientation = "none" -> showToast(w, "Compass not supported")
      [] w.platform.orientation = "prompt" -> [w EXCEPT !.platform.pending = @ + 1]
      [] OTHER -> app_startCompassListening(w)

app_disableCompass(w) ==
    [w EXCEPT !.platform.listening = FALSE,
              !.state.isCompassEnabled = FALSE,
              !.state.compassHeading = None]

app_permissionSettled(w, res) ==
    LET w1 == [w EXCEPT !.platform.pending = @ - 1]
    IN CASE res = "granted" -> app_startCompassListening(w1)
         [] res = "denied" -> showToast(w1, "Compass permission denied")
         [] OTHER -> showToast(w1, "Compass error")

toggleCompass(w) ==
    IF w.state.isCompassEnabled THEN app_disableCompass(w) ELSE app_enableCompass(w)

app_startGps(w) ==
    IF ~w.platform.geolocation
    THEN showToast(w, "Geolocation not supported")
    ELSE [watchPosition(w)
          EXCEPT !.state.isGpsActive = TRUE,
                 !.elements.btnLockDisabled = FALSE,
                 !.elements.btnCompassDisabled = FALSE]

app_stopGps(w) ==
    LET w1 == IF w.state.watchId # None
              THEN [clearWatch(w, Val(w.state.watchId)) EXCEPT !.state.watchId = None]
              ELSE w
        w2 == [w1 EXCEPT !.state.userMarker = None,
                         !.state.accuracyCircle = None,
                         !.state.isGpsActive = FALSE,
                         !.state.lastPosition = None,
                         !.state.positionHistory = <<>>]
        w3 == app_setLockMode(w2, FALSE)
        w4 == IF w3.state.isCompassEnabled THEN app_disableCompass(w3) ELSE w3
    IN [w4 EXCEPT !.elements.btnLockDisabled = TRUE,
                  !.elements.btnCompassDisabled = TRUE]

toggleGps(w) == IF w.state.isGpsActive THEN app_stopGps(w) ELSE app_startGps(w)

app_onPositionUpdate(w, position) ==
    LET latlng == position.latlng
    IN IF w.state.lastPosition # None
          /\ ~shouldUpdatePosition(latlng, Val(w.state.lastPosition))
       THEN w
       ELSE
       LET pushed == Append(w.state.positionHistory, Val(w.state.lastPosition))
           w1 == IF w.state.lastPosition # None
                 THEN [w EXCEPT !.state.positionHistory =
                                    IF Len(pushed) > HistoryLimit THEN Tail(pushed) ELSE pushed]
                 ELSE w
           w2 == [w1 EXCEPT !.state.lastPosition = Some(latlng), !.out.accepted = TRUE]
           w3 == app_updateUserMarker(w2, latlng, position.accuracy)
           computedHeading == computeHeadingFromMovement(w3)
           w4 == IF GpsHeadingInUse(w3) /\ position.heading # None
                 THEN app_updateHeading(w3, Val(position.heading))
                 ELSE IF GpsHeadingInUse(w3) /\ computedHeading # None
                      THEN app_updateHeading(w3, Val(computedHeading))
                      ELSE w3
           w5 == IF w4.state.isLocked
                 THEN setView(w4, latlng, getZoom(w4), TRUE)
                 ELSE w4
       IN w5

app_onPositionError(w, code) ==
    showToast(w,
              CASE code = 1 -> "Location permission denied"
                [] code = 2 -> "Position unavailable"
                [] code = 3 -> "Location timeout"
                [] OTHER -> "Location error")

onDeviceOrientation(w, event) ==
    LET heading == IF event.webkitCompassHeading # None THEN event.webkitCompassHeading
                   ELSE IF event.alpha # None THEN Some(360 - Val(event.alpha))
                   ELSE None
    IN IF heading # None
       THEN app_updateHeading([w EXCEPT !.state.compassHeading = heading], Val(heading))
       ELSE w

app_dragstartHandler(w) ==
    IF w.state.isLocked
    THEN showToast(app_setLockMode([w EXCEPT !.state.wasManuallyPanned = TRUE], FALSE),
                   "Lock disabled")
    ELSE w


(* ---------------- events ---------------- *)

OrientationEvents ==
    { [webkitCompassHeading |-> None, absolute |-> TRUE, alpha |-> Some(270)] }

PermissionResults == {"granted", "denied", "error"}

(* err.code: PERMISSION_DENIED, POSITION_UNAVAILABLE, TIMEOUT, and a code *)
(* outside the three, which the handlers treat as unknown.               *)
ErrorCodes == {1, 2, 3, 0}

IsApp == build = "app.js"

(* The world a handler starts from; inb is what getBounds().contains will answer. *)
Begin(inb) == [World EXCEPT !.inBounds = inb]

(* The handlers the page registered, by script. *)
OnPosition(w, pos) == IF IsApp THEN app_onPositionUpdate(w, pos) ELSE onPositionUpdate(w, pos)

OnPositionError(w, code) == IF IsApp THEN app_onPositionError(w, code) ELSE onPositionError(w, code)

OnDragStart(w) == IF IsApp THEN app_dragstartHandler(w) ELSE dragstartHandler(w)

OnViewSettled(w) == IF IsApp THEN w ELSE dragendZoomendHandler(w)

OnOrientation(w, e) == IF IsApp THEN onDeviceOrientation(w, e) ELSE onOrientation(w, e)

OnPermission(w, res) == IF IsApp THEN app_permissionSettled(w, res) ELSE permissionSettled(w, res)

Commit(w) ==
    /\ state' = w.state
    /\ elements' = w.elements
    /\ map' = w.map
    /\ platform' = w.platform
    /\ UNCHANGED build

CanWatch == Cardinality(platform.watches) < MaxWatches

CanPrompt == platform.orientation = "prompt" => platform.pending < MaxPending

(* const state = {...}, after loadGpxFromQuery: gpxLayer is the track layer, *)
(* absent when the gpx parameter is missing or invalid.                     *)
InitState(gpxLayer) ==
    [gpxLayer |-> gpxLayer, gpxFilename |-> None,
     userMarker |-> None, accuracyCircle |-> None, watchId |-> None,
     lastPosition |-> None, lastHeading |-> None, isGpsActive |-> FALSE,
     isLocked |-> FALSE, wasManuallyPanned |-> FALSE,
     isCompassEnabled |-> FALSE, hasCompassPermission |-> FALSE,
     compassHeading |-> None, isStarted |-> FALSE,
     positionHistory |-> <<>>, hasInitialZoomed |-> FALSE]

(* The page opened without a valid gpx parameter: no track is requested. *)
Init ==
    /\ build \in Builds
    /\ state = InitState(None)
    /\ elements = [toggleGps |-> FALSE, toggleLock |-> FALSE, toggleHeading |-> FALSE,
                   btnStart |-> FALSE, btnLockDisabled |-> TRUE,
                   btnCompassDisabled |-> TRUE,
                   trackTitle |-> IF build = "app.js" THEN "No Track" ELSE "Invalid Track"]
    /\ map = [zoom |-> defaultZoom, zoomEndPending |-> FALSE]
    /\ \E g \in BOOLEAN, o \in {"none", "free", "prompt"} :
          platform = [geolocation |-> g, orientation |-> o, watches |-> {},
                      listening |-> FALSE, pending |-> 0, gpxParam |-> None]

(* part_001: the unified Start button. *)
ClickStart(inb) ==
    /\ ~IsApp
    /\ ~state.isStarted => (CanWatch /\ CanPrompt)
    /\ Commit(toggleUnifiedStart(Begin(inb)))

(* part_001: a change event of a fine-grained checkbox; checked is the new value. *)
ChangeToggleGps ==
    /\ ~IsApp
    /\ ~elements.toggleGps => CanWatch
    /\ Commit(toggleFeature([Begin(TRUE) EXCEPT !.elements.toggleGps = ~@],
                            "gps", ~elements.toggleGps))

ChangeToggleLock(inb) ==
    /\ ~IsApp
    /\ Commit(toggleFeature([Begin(inb) EXCEPT !.elements.toggleLock = ~@],
                            "lock", ~elements.toggleLock))

ChangeToggleHeading ==
    /\ ~IsApp
    /\ ~elements.toggleHeading => CanPrompt
    /\ Commit(toggleFeature([Begin(TRUE) EXCEPT !.elements.toggleHeading = ~@],
                            "heading", ~elements.toggleHeading))

(* app.js: the three buttons; a disabled button dispatches no click. *)
ClickGps ==
    /\ IsApp
    /\ ~state.isGpsActive => CanWatch
    /\ Commit(toggleGps(Begin(TRUE)))

ClickLock ==
    /\ IsApp
    /\ ~elements.btnLockDisabled
    /\ Commit(toggleLock(Begin(TRUE)))

ClickCompass ==
    /\ IsApp
    /\ ~elements.btnCompassDisabled
    /\ ~state.isCompassEnabled => CanPrompt
    /\ Commit(toggleCompass(Begin(TRUE)))

(* The user starts to drag the map. *)
DragStart ==
    Commit(OnDragStart(Begin(TRUE)))

(* The user releases the map. *)
DragEnd(inb) ==
    Commit(OnViewSettled(Begin(inb)))

(* The user zooms the map to level z. *)
UserZoom(z, inb) ==
    /\ z # map.zoom
    /\ Commit(OnViewSettled([Begin(inb) EXCEPT !.map.zoom = z]))

(* The zoomend event of a camera command that changed the zoom. *)
ZoomEnd(inb) ==
    /\ map.zoomEndPending
    /\ Commit(OnViewSettled([Begin(inb) EXCEPT !.map.zoomEndPending = FALSE]))

(* A registered watch delivers a fix. *)
PositionUpdate(pos, inb) ==
    /\ platform.watches # {}
    /\ Commit(OnPosition(Begin(inb), pos))

PositionError(code) ==
    /\ platform.watches # {}
    /\ Commit(OnPositionError(Begin(TRUE), code))

Orientation(e) ==
    /\ platform.listening
    /\ Commit(OnOrientation(Begin(TRUE), e))

PermissionSettled(res) ==
    /\ platform.pending > 0
    /\ Commit(OnPermission(Begin(TRUE), res))

Next ==
    \/ \E inb \in BOOLEAN : ClickStart(inb)
    \/ ChangeToggleGps
    \/ \E inb \in BOOLEAN : ChangeToggleLock(inb)
    \/ ChangeToggleHeading
    \/ ClickGps
    \/ ClickLock
    \/ ClickCompass
    \/ DragStart
    \/ \E inb \in BOOLEAN : DragEnd(inb)
    \/ \E z \in ZoomLevels, inb \in BOOLEAN : UserZoom(z, inb)
    \/ \E inb \in BOOLEAN : ZoomEnd(inb)
    \/ \E pos \in Positions, inb \in BOOLEAN : PositionUpdate(pos, inb)
    \/ \E code \in ErrorCodes : PositionError(code)
    \/ \E e \in OrientationEvents : Orientation(e)
    \/ \E res \in PermissionResults : PermissionSettled(res)

Spec == Init /\ [][Next]_vars

(* ---------------- the page opened on a track ---------------- *)

(* The 'loaded' handler of the track layer: fitBounds moves the map to the  *)
(* zoom level z that fits the track; a change of zoom makes the map emit    *)
(* zoomend.                                                                 *)
gpxLoaded(w, z) ==
    LET w1 == [w EXCEPT !.state.gpxLayer = Some("loaded"), !.map.zoom = z,
                        !.elements.trackTitle = "track name"]
    IN IF z # w.map.zoom THEN OnViewSettled(w1) ELSE w1

(* The 'error' handler of the track layer. *)
gpxError(w) ==
    showToast([w EXCEPT !.state.gpxLayer = Some("error"), !.elements.trackTitle = "Load Error"],
              "Failed to load track")

TrackLoaded(z, inb) ==
    /\ state.gpxLayer = Some("loading")
    /\ Commit(gpxLoaded(Begin(inb), z))

TrackError ==
    /\ state.gpxLayer = Some("loading")
    /\ Commit(gpxError(Begin(TRUE)))

(* The file of the repository's examples, example.gpx, shortened. *)
ExampleFile == <<"a", ".", "g", "p", "x">>

(* loadGpxFromQuery with a valid gpx parameter: the layer is created and loads. *)
InitTrack ==
    /\ build \in Builds
    /\ state = [InitState(Some("loading")) EXCEPT
                    !.gpxFilename = IF build = "app.js" THEN None ELSE Some(ExampleFile)]
    /\ elements = [toggleGps |-> FALSE, toggleLock |-> FALSE, toggleHeading |-> FALSE,
                   btnStart |-> FALSE, btnLockDisabled |-> TRUE,
                   btnCompassDisabled |-> TRUE, trackTitle |-> "Loading..."]
    /\ map = [zoom |-> defaultZoom, zoomEndPending |-> FALSE]
    /\ \E g \in BOOLEAN, o \in {"none", "free", "prompt"} :
          platform = [geolocation |-> g, orientation |-> o, watches |-> {},
                      listening |-> FALSE, pending |-> 0, gpxParam |-> Some(ExampleFile)]

NextTrack ==
    \/ Next
    \/ \E z \in ZoomLevels, inb \in BOOLEAN : TrackLoaded(z, inb)
    \/ TrackError

SpecTrack == InitTrack /\ [][NextTrack]_vars

(* ---------------- the page reads its gpx parameter ---------------- *)

(* String.prototype.toLowerCase, on the letters of the alphabet used here. *)
toLowerCase(f) ==
    [i \in 1..Len(f) |->
        CASE f[i] = "G" -> "g" [] f[i] = "P" -> "p" [] f[i] = "X" -> "x"
          [] f[i] = "Z" -> "z" [] OTHER -> f[i]]

endsWith(f, suffix) ==
    /\ Len(f) >= Len(suffix)
    /\ SubSeq(f, Len(f) - Len(suffix) + 1, Len(f)) = suffix

includes(f, part) ==
    \E i \in 1..(Len(f) - Len(part) + 1) : SubSeq(f, i, i + Len(part) - 1) = part

(* The class \w of a regular expression: letters, digits and the underscore. *)
WordChars == {"a", "z", "Z", "7", "_", "g", "p", "x", "G", "P", "X"}

(* /^[\w\-\.]+\.gpx$/i: one or more of \w, dash and dot, then .gpx in any case. *)
validPattern(f) ==
    /\ Len(f) >= 5
    /\ endsWith(toLowerCase(f), <<".", "g", "p", "x">>)
    /\ \A i \in 1..(Len(f) - 4) : f[i] \in WordChars \cup {"-", "."}

(* The same function in both scripts. *)
isValidGpxFilename(filename) ==
    IF ~endsWith(toLowerCase(filename), <<".", "g", "p", "x">>) THEN FALSE
    ELSE IF \/ includes(filename, <<"/">>)
            \/ includes(filename, <<"\\">>)
            \/ includes(filename, <<".", ".">>)
         THEN FALSE
         ELSE validPattern(filename)

(* new L.GPX(url, {async: true}) and addTo(map): the layer starts to load. *)
newGpxLayer(w) == [w EXCEPT !.state.gpxLayer = Some("loading")]

(* An empty parameter is falsy, as a missing one is. *)
Missing(gpxParam) == gpxParam = None \/ Val(gpxParam) = <<>>

loadGpxFromQuery(w) ==
    LET gpxParam == w.platform.gpxParam
    IN IF Missing(gpxParam) \/ ~isValidGpxFilename(Val(gpxParam))
       THEN [showToast(w, "GPX file missing or invalid")
             EXCEPT !.elements.trackTitle = "Invalid Track"]
       ELSE newGpxLayer([w EXCEPT !.state.gpxFilename = gpxParam,
                                  !.elements.trackTitle = "Loading..."])

app_loadGpxFromQuery(w) ==
    LET gpxParam == w.platform.gpxParam
    IN IF Missing(gpxParam)
       THEN [showToast(w, "No GPX file specified in URL")
             EXCEPT !.elements.trackTitle = "No Track"]
       ELSE IF ~isValidGpxFilename(Val(gpxParam))
            THEN [showToast(w, "Invalid GPX filename")
                  EXCEPT !.elements.trackTitle = "Invalid File"]
            ELSE newGpxLayer([w EXCEPT !.elements.trackTitle = "Loading..."])

OnLoadGpx(w) == IF IsApp THEN app_loadGpxFromQuery(w) ELSE loadGpxFromQuery(w)

(* The characters a name is made of before its extension: letters, a digit, *)
(* dash, underscore, dot, the two path separators and a character of none   *)
(* of these kinds.                                                          *)
StemChars == {"a", "Z", "7", "-", "_", ".", "/", "\\", "%"}

Stems == UNION {[1..n -> StemChars] : n \in 0..MaxStem}

Extensions == {<<".", "g", "p", "x">>, <<".", "G", "p", "X">>, <<".", "g", "p">>, <<>>}

Filenames == {stem \o ext : stem \in Stems, ext \in Extensions}

(* init() has run initMap and is about to run loadGpxFromQuery: the page's *)
(* address carries any gpx parameter or none.                              *)
InitLoad ==
    /\ build \in Builds
    /\ state = InitState(None)
    /\ elements = [toggleGps |-> FALSE, toggleLock |-> FALSE, toggleHeading |-> FALSE,
                   btnStart |-> FALSE, btnLockDisabled |-> TRUE,
                   btnCompassDisabled |-> TRUE, trackTitle |-> ""]
    /\ map = [zoom |-> defaultZoom, zoomEndPending |-> FALSE]
    /\ \E q \in {None} \cup {Some(f) : f \in Filenames} :
          platform = [geolocation |-> TRUE, orientation |-> "free", watches |-> {},
                      listening |-> FALSE, pending |-> 0, gpxParam |-> q]

(* init() goes on: loadGpxFromQuery runs, once. *)
PageLoad ==
    /\ elements.trackTitle = ""
    /\ Commit(OnLoadGpx(Begin(TRUE)))

NextLoad ==
    \/ PageLoad
    \/ \E z \in ZoomLevels, inb \in BOOLEAN : TrackLoaded(z, inb)
    \/ TrackError

SpecLoad == InitLoad /\ [][NextLoad]_vars


(* ======================= properties ======================= *)

(* A fix can arrive: some position watch is registered with the platform. *)
FixCanArrive == platform.watches # {}

(* The fix is at least minMovement away from the last accepted position. *)
MovedEnough(pos) ==
    \/ pos.latlng - Val(state.lastPosition) >= minMovement
    \/ Val(state.lastPosition) - pos.latlng >= minMovement

(* The fix passes the movement filter as the specification states it. *)
PassesFilter(pos) == state.lastPosition = None \/ MovedEnough(pos)

(* The fixes the accuracy properties probe: those the watches deliver in the *)
(* model, and the accuracies on and next to each side of the two gates.     *)
GateAccuracies ==
    {MarkerAccuracy - 1, MarkerAccuracy, MarkerAccuracy + 1,
     FollowAccuracy - 1, FollowAccuracy, FollowAccuracy + 1}

Fixes == [latlng : Points, accuracy : Accuracies \cup GateAccuracies, heading : GpsHeadings]

MarkerPlace(s) == IF s.userMarker = None THEN None ELSE Some(Val(s.userMarker).latlng)

Max(a, b) == IF a > b THEN a ELSE b

(* The handler run that switches GPS off and does nothing else: the GPS *)
(* button of app.js, the fine-grained GPS checkbox of part_001.         *)
CanSwitchGpsOff == IF IsApp THEN state.isGpsActive ELSE elements.toggleGps

SwitchGpsOff ==
    IF IsApp THEN toggleGps(Begin(TRUE))
    ELSE toggleFeature([Begin(TRUE) EXCEPT !.elements.toggleGps = FALSE], "gps", FALSE)

(* C1: in every reachable state, isLocked is true only if isGpsActive is true. *)
C1_LockedOnlyWhileGpsActive == state.isLocked => state.isGpsActive

(* C1 case: part_001, a session started with Start on a device with GPS, and *)
(* the GPS checkbox cleared since: lock is on, GPS is off.                   *)
C1_Witness ==
    /\ ~IsApp /\ platform.geolocation /\ state.isStarted
    /\ ~elements.toggleGps /\ elements.toggleLock
    /\ state.isLocked /\ ~state.isGpsActive

(* C2: from any state in which GPS can be switched off, when stopGps has   *)
(* returned isLocked is false and hasInitialZoomed is false.               *)
C2_StopGpsResetsLockAndZoomFlag ==
    CanSwitchGpsOff =>
        /\ ~SwitchGpsOff.state.isLocked
        /\ ~SwitchGpsOff.state.hasInitialZoomed

(* C2 case: part_001, GPS running and lock on; clearing the GPS checkbox runs *)
(* stopGps and lock is still on when the handler is done.                    *)
C2_Witness ==
    /\ ~IsApp /\ state.isGpsActive /\ state.isLocked /\ CanSwitchGpsOff
    /\ ~SwitchGpsOff.state.isGpsActive
    /\ SwitchGpsOff.state.isLocked

(* C3: in any state where isLocked is true, the drag-start handler leaves *)
(* isLocked false, whatever the other session fields are.                 *)
C3_DragStartBreaksLock == state.isLocked => ~OnDragStart(Begin(TRUE)).state.isLocked

(* C3 case: part_001, lock on with the session not started (the lock checkbox *)
(* was ticked without Start); a drag start leaves lock on.                    *)
C3_Witness ==
    /\ ~IsApp /\ state.isLocked /\ ~state.isStarted
    /\ OnDragStart(Begin(TRUE)).state.isLocked

(* C4: while isLocked is false no position update issues a camera command. *)
C4_NoCameraWhileUnlocked ==
    (FixCanArrive /\ ~state.isLocked) =>
        \A pos \in Positions, inb \in BOOLEAN : OnPosition(Begin(inb), pos).out.cam = <<>>

(* C4 witness: the session is started, lock is off (a drag start or the lock *)
(* toggle took it off), a fix has been accepted before, and a good fix that  *)
(* passes the filter is handled without a camera command.                    *)
C4_Witness ==
    /\ state.isStarted /\ state.isGpsActive /\ ~state.isLocked
    /\ FixCanArrive /\ state.lastPosition # None
    /\ \E pos \in Positions :
          /\ MovedEnough(pos) /\ pos.accuracy < FollowAccuracy
          /\ OnPosition(Begin(FALSE), pos).out.accepted
          /\ OnPosition(Begin(FALSE), pos).out.cam = <<>>

(* The camera commands of lock entry, through the controls that call setLockMode(true). *)
LockEntryCommands(inb) ==
    IF IsApp
    THEN IF ~elements.btnLockDisabled /\ ~state.isLocked
         THEN toggleLock(Begin(inb)).out.cam ELSE <<>>
    ELSE IF ~elements.toggleLock
         THEN toggleFeature([Begin(inb) EXCEPT !.elements.toggleLock = TRUE], "lock", TRUE).out.cam
         ELSE <<>>

FollowZoomOk(cam) == \A i \in 1..Len(cam) : cam[i].zoom = Max(cam[i].from, trackingZoom)

(* C5: every camera command of the follow controller (a position update while *)
(* locked, lock entry) uses zoom = max(current zoom, trackingZoom), so the     *)
(* commanded zoom is never lower than the current zoom.                        *)
C5_FollowZoomIsMaxOfCurrentAndTracking ==
    \A pos \in Positions, inb \in BOOLEAN :
        /\ FixCanArrive => FollowZoomOk(OnPosition(Begin(inb), pos).out.cam)
        /\ FollowZoomOk(LockEntryCommands(inb))

(* C5 case: part_001, locked, no follow tick yet, the map zoomed in beyond *)
(* trackingZoom; the first good fix commands a zoom below the current one. *)
C5_Witness ==
    /\ ~IsApp /\ FixCanArrive /\ state.isLocked /\ ~state.hasInitialZoomed
    /\ map.zoom > trackingZoom
    /\ \E pos \in Positions :
          /\ Len(OnPosition(Begin(TRUE), pos).out.cam) = 1
          /\ OnPosition(Begin(TRUE), pos).out.cam[1].zoom < map.zoom

(* GPS switched off and on again, from the state as it is. *)
Restarted ==
    IF IsApp THEN app_startGps(app_stopGps(Begin(TRUE)))
    ELSE startGps(stopGps(Begin(TRUE)))

(* C6: the filter accepts a fix when there is no previous accepted fix, and  *)
(* otherwise exactly when it is at least minMovement from the previous one;  *)
(* after a stop and restart there is no previous fix, so any fix is accepted. *)
C6_FilterAcceptsIffMovedEnough ==
    /\ FixCanArrive =>
           \A pos \in Positions, inb \in BOOLEAN :
               OnPosition(Begin(inb), pos).out.accepted <=> PassesFilter(pos)
    /\ platform.geolocation =>
           LET w == Restarted
           IN \A pos \in Positions : OnPosition(w, pos).out.accepted

(* C6 witness: a fix exactly minMovement from the previous one is accepted, *)
(* one closer is rejected, in the same state.                                *)
C6_Witness ==
    /\ FixCanArrive /\ state.lastPosition # None
    /\ \E p, q \in Positions :
          /\ MovedEnough(p) /\ ~MovedEnough(q) /\ q.latlng # Val(state.lastPosition)
          /\ OnPosition(Begin(TRUE), p).out.accepted
          /\ ~OnPosition(Begin(TRUE), q).out.accepted

(* C7: a fix the movement filter rejects changes nothing and issues no *)
(* camera command, whatever its accuracy and heading.                  *)
C7_RejectedFixChangesNothing ==
    (FixCanArrive /\ state.lastPosition # None) =>
        \A pos \in Positions, inb \in BOOLEAN :
            ~PassesFilter(pos) => OnPosition(Begin(inb), pos) = Begin(inb)

(* C7 witness: locked on a marker with an arrow, and a fix within minMovement *)
(* of the last accepted position, with another accuracy, is dropped.          *)
C7_Witness ==
    /\ FixCanArrive /\ state.isLocked /\ state.userMarker # None
    /\ state.lastPosition # None
    /\ \E pos \in Positions :
          /\ ~PassesFilter(pos)
          /\ pos.latlng # Val(state.lastPosition)
          /\ pos.accuracy # Val(state.accuracyCircle).radius
          /\ OnPosition(Begin(FALSE), pos) = Begin(FALSE)

(* C8: a fix that passes the filter becomes the last accepted position whatever *)
(* its accuracy; with accuracy above 100 m it neither creates nor moves the     *)
(* user marker.                                                                 *)
C8_PoorFixStoredButNotDrawn ==
    \A pos \in Fixes, inb \in BOOLEAN :
        (FixCanArrive /\ PassesFilter(pos)) =>
            /\ OnPosition(Begin(inb), pos).state.lastPosition = Some(pos.latlng)
            /\ pos.accuracy > MarkerAccuracy =>
                  MarkerPlace(OnPosition(Begin(inb), pos).state) = MarkerPlace(state)

(* C8 case: app.js, GPS on and no marker yet; a fix with accuracy above 100 m *)
(* puts the marker on the map.                                               *)
C8_Witness ==
    /\ IsApp /\ FixCanArrive /\ state.userMarker = None
    /\ \E pos \in Positions :
          /\ pos.accuracy > MarkerAccuracy
          /\ OnPosition(Begin(TRUE), pos).state.userMarker = Some([latlng |-> pos.latlng, arrow |-> None])

(* C9: while locked, every fix that passes the filter with accuracy below 60 m *)
(* makes the handler issue exactly one setView, centred on the fix.             *)
C9_LockedGoodFixRecentresOnce ==
    (FixCanArrive /\ state.isLocked) =>
        \A pos \in Fixes, inb \in BOOLEAN :
            (PassesFilter(pos) /\ pos.accuracy < FollowAccuracy) =>
                LET cam == OnPosition(Begin(inb), pos).out.cam
                IN Len(cam) = 1 /\ cam[1].center = pos.latlng

(* C9 witness: locked and following already, and a further good fix on screen *)
(* moves the camera to it.                                                    *)
C9_Witness ==
    /\ FixCanArrive /\ state.isLocked /\ state.lastPosition # None
    /\ state.userMarker # None
    /\ \E pos \in Positions :
          /\ MovedEnough(pos) /\ pos.accuracy < FollowAccuracy
          /\ Len(OnPosition(Begin(TRUE), pos).out.cam) = 1
          /\ OnPosition(Begin(TRUE), pos).out.cam[1].center = pos.latlng

(* C10: a fix with accuracy above 60 m never moves the camera and never sets *)
(* the initial-zoom flag, even while locked.                                 *)
C10_PoorFixNeverMovesCamera ==
    \A pos \in Fixes, inb \in BOOLEAN :
        (FixCanArrive /\ pos.accuracy > FollowAccuracy) =>
            /\ OnPosition(Begin(inb), pos).out.cam = <<>>
            /\ OnPosition(Begin(inb), pos).state.hasInitialZoomed = state.hasInitialZoomed

(* C10 case: app.js, locked; a fix with accuracy above 60 m that passes the *)
(* filter moves the camera.                                                 *)
C10_Witness ==
    /\ IsApp /\ FixCanArrive /\ state.isLocked
    /\ \E pos \in Positions :
          /\ pos.accuracy > FollowAccuracy /\ PassesFilter(pos)
          /\ Len(OnPosition(Begin(TRUE), pos).out.cam) = 1
          /\ OnPosition(Begin(TRUE), pos).out.cam[1].center = pos.latlng

(* ---------------- lock entry, zoom flag, heading, unified control ---------------- *)

(* The world a handler run returned, as the next handler run finds it. *)
Then(w, inb) == [w EXCEPT !.out = [accepted |-> FALSE, cam |-> <<>>, toasts |-> <<>>, headings |-> <<>>],
                          !.inBounds = inb]

(* The user switches lock on through the lock control, from world w. *)
LockEntry(w) ==
    IF IsApp THEN toggleLock(w)
    ELSE toggleFeature([w EXCEPT !.elements.toggleLock = TRUE], "lock", TRUE)

CanEnterLock == IF IsApp THEN ~elements.btnLockDisabled ELSE ~elements.toggleLock

(* C11: lock entry issues a camera command only if there is a current fix and *)
(* its accuracy is within 60 m: with no accepted fix, and right after an       *)
(* accepted fix of accuracy above 60 m, entering lock issues no command.       *)
C11_LockEntryNeedsGoodFix ==
    (~state.isLocked /\ CanEnterLock) =>
        /\ state.lastPosition = None => LockEntry(Begin(TRUE)).out.cam = <<>>
        /\ FixCanArrive =>
               \A pos \in Fixes, inb \in BOOLEAN :
                   (PassesFilter(pos) /\ pos.accuracy > FollowAccuracy) =>
                       LockEntry(Then(OnPosition(Begin(TRUE), pos), inb)).out.cam = <<>>

(* C11 case: part_001, lock off, GPS running; a fix of accuracy 150 m is *)
(* accepted and the lock checkbox is ticked: one setView to that fix.    *)
C11_Witness ==
    /\ ~IsApp /\ ~state.isLocked /\ ~elements.toggleLock /\ FixCanArrive
    /\ \E pos \in Positions :
          /\ pos.accuracy > MarkerAccuracy /\ PassesFilter(pos)
          /\ LET cam == LockEntry(Then(OnPosition(Begin(TRUE), pos), TRUE)).out.cam
             IN Len(cam) = 1 /\ cam[1].center = pos.latlng

(* A step of one of the events that may switch lock on: the lock control, the *)
(* unified Start button, the end of a pan by the user.                        *)
LockControlStep ==
    \/ \E inb \in BOOLEAN : ClickStart(inb)
    \/ \E inb \in BOOLEAN : ChangeToggleLock(inb)
    \/ ClickLock
    \/ \E inb \in BOOLEAN : DragEnd(inb)

(* C12: isLocked goes from false to true only in a step of the lock control, *)
(* of the unified Start button or of the end of a user pan; no zoom end,      *)
(* position update, orientation update or track load switches lock on.        *)
C12_LockOnlyByUserControl ==
    [][(~state.isLocked /\ state.isLocked') => LockControlStep]_vars

(* C12 case: part_001, session started with GPS running, lock switched off  *)
(* through the lock checkbox, the track still loading; the zoomend of the   *)
(* fit-to-bounds, and the end of a zoom by the user, switch lock on again.  *)
C12_Witness ==
    /\ ~IsApp /\ state.isStarted /\ state.isGpsActive
    /\ ~state.isLocked /\ ~elements.toggleLock
    /\ state.gpxLayer = Some("loading")
    /\ \E z \in ZoomLevels :
          /\ z # map.zoom
          /\ gpxLoaded(Begin(TRUE), z).state.isLocked
          /\ OnViewSettled([Begin(TRUE) EXCEPT !.map.zoom = z]).state.isLocked

(* C13: in the script that keeps the initial-zoom flag, a position update    *)
(* while locked issues its setView with animate = false when the flag is     *)
(* false and the fix is outside the map bounds, and with animate = true when *)
(* the flag is true or the fix is inside the bounds.                         *)
C13_FirstOffscreenFixJumps ==
    (~IsApp /\ FixCanArrive /\ state.isLocked) =>
        \A pos \in Positions, inb \in BOOLEAN :
            LET cam == OnPosition(Begin(inb), pos).out.cam
            IN \A i \in 1..Len(cam) :
                  cam[i].animate = ~(~state.hasInitialZoomed /\ ~inb)

(* C13 witness: locked, flag false; a good fix outside the bounds is jumped *)
(* to, and the next good fix, inside the bounds, is animated to.            *)
C13_Witness ==
    /\ ~IsApp /\ FixCanArrive /\ state.isLocked /\ ~state.hasInitialZoomed
    /\ \E p, q \in Positions :
          LET w1 == OnPosition(Begin(FALSE), p)
              w2 == OnPosition(Then(w1, TRUE), q)
          IN /\ Len(w1.out.cam) = 1 /\ ~w1.out.cam[1].animate
             /\ Len(w2.out.cam) = 1 /\ w2.out.cam[1].animate

(* A position update that issues a follow camera command. *)
FollowStep ==
    \E pos \in Positions, inb \in BOOLEAN :
        /\ PositionUpdate(pos, inb)
        /\ OnPosition(Begin(inb), pos).out.cam # <<>>

(* A step of an event whose handler executes stopGps. *)
StopGpsStep ==
    \/ elements.toggleGps /\ ChangeToggleGps
    \/ state.isStarted /\ \E inb \in BOOLEAN : ClickStart(inb)
    \/ state.isGpsActive /\ ClickGps

(* C14: the initial-zoom flag becomes true only in a position update that  *)
(* issues a follow camera command, and once true it stays true through     *)
(* every event until one that executes stopGps.                            *)
C14_ZoomFlagSetByFollowClearedByStop ==
    [][/\ (~state.hasInitialZoomed /\ state.hasInitialZoomed') => FollowStep
       /\ (state.hasInitialZoomed /\ ~state.hasInitialZoomed') => StopGpsStep]_vars

(* C14 witness: the flag is true with lock switched off again; a drag start *)
(* and a location error keep it, clearing the GPS checkbox resets it.       *)
C14_Witness ==
    /\ state.hasInitialZoomed /\ ~state.isLocked /\ state.isGpsActive
    /\ elements.toggleGps /\ state.isStarted
    /\ OnDragStart(Begin(TRUE)).state.hasInitialZoomed
    /\ \A code \in ErrorCodes : OnPositionError(Begin(TRUE), code).state.hasInitialZoomed
    /\ ~SwitchGpsOff.state.hasInitialZoomed

(* ---------------- the heading inputs in full ---------------- *)

(* Courses a fix reports: none, due north, east, just west of north. *)
Courses == {None, Some(0), Some(90), Some(358)}

(* Fixes that carry them: at the origin or minMovement away, good accuracy. *)
HeadingPositions == [latlng : {0, minMovement}, accuracy : {40}, heading : Courses]

(* Orientation events: absolute alpha 0, 2 and 270 (headings 360, 358, 90), *)
(* and an iOS event whose webkitCompassHeading is 0.                        *)
HeadingEvents ==
    [webkitCompassHeading : {None}, absolute : {TRUE}, alpha : {Some(0), Some(2), Some(270)}]
    \cup {[webkitCompassHeading |-> Some(0), absolute |-> FALSE, alpha |-> None]}

(* The session as far as the heading is concerned: GPS and compass switched *)
(* on and off, fixes and orientation events with the headings above.        *)
NextHeading ==
    \/ ClickStart(TRUE)
    \/ ChangeToggleGps
    \/ ChangeToggleHeading
    \/ ClickGps
    \/ ClickCompass
    \/ \E pos \in HeadingPositions : PositionUpdate(pos, TRUE)
    \/ \E e \in HeadingEvents : Orientation(e)
    \/ \E res \in PermissionResults : PermissionSettled(res)

SpecHeading == Init /\ [][NextHeading]_vars

(* updateHeading of the script the page runs. *)
OnHeading(w, h) == IF IsApp THEN app_updateHeading(w, h) ELSE updateHeading(w, h)

(* The heading the arrow of the user marker shows. *)
Arrow(s) == IF s.userMarker = None THEN None ELSE Val(s.userMarker).arrow

HeadingSamples == {0, 2, 3, 90, 94, 95, 353, 354, 358}

CircularDistance(a, b) ==
    IF Abs(a - b) < 360 - Abs(a - b) THEN Abs(a - b) ELSE 360 - Abs(a - b)

(* C15: with the marker on the map, updateHeading adopts a sample when no   *)
(* previous heading is stored, and otherwise exactly when its circular      *)
(* distance to the stored heading is at least minHeadingChange; a rejected  *)
(* sample leaves the stored heading and the arrow as they are.              *)
C15_HeadingAdoptedIffCircularChange ==
    state.userMarker # None =>
        \A h \in HeadingSamples :
            LET w == OnHeading(Begin(TRUE), h)
            IN IF \/ state.lastHeading = None
                  \/ CircularDistance(h, Val(state.lastHeading)) >= minHeadingChange
               THEN /\ Arrow(w.state) = Some(h)
                    /\ IsApp => w.state.lastHeading = Some(h)
               ELSE w.state = state

(* C15 case: app.js, stored heading 358; a sample of 2 is adopted. *)
C15_Witness ==
    /\ IsApp /\ state.userMarker # None /\ state.lastHeading = Some(358)
    /\ app_updateHeading(Begin(TRUE), 2).state.lastHeading = Some(2)
    /\ Arrow(app_updateHeading(Begin(TRUE), 2).state) = Some(2)

(* What the page holds of the heading: the stored last heading, the compass *)
(* heading, the rotation of the arrow.                                      *)
HeadingOf(s) == <<s.lastHeading, s.compassHeading, Arrow(s)>>

(* C16: while isCompassEnabled is true no position update changes the      *)
(* heading, whatever course the fix reports and however far it has moved.  *)
C16_CompassOverridesGpsHeading ==
    (FixCanArrive /\ state.isCompassEnabled) =>
        \A pos \in HeadingPositions, inb \in BOOLEAN :
            HeadingOf(OnPosition(Begin(inb), pos).state) = HeadingOf(state)

(* C16 witness: compass enabled and listening, the arrow showing a compass   *)
(* heading; an accepted fix that reports another course leaves the heading,  *)
(* an orientation event changes it.                                          *)
C16_Witness ==
    /\ FixCanArrive /\ state.isCompassEnabled /\ platform.listening
    /\ state.lastPosition # None /\ Arrow(state) = Some(90)
    /\ \E pos \in HeadingPositions :
          /\ pos.heading = Some(358) /\ MovedEnough(pos)
          /\ OnPosition(Begin(TRUE), pos).out.accepted
          /\ HeadingOf(OnPosition(Begin(TRUE), pos).state) = HeadingOf(state)
    /\ \E e \in HeadingEvents :
          Arrow(OnOrientation(Begin(TRUE), e).state) = Some(358)

(* C17: an accepted fix with the compass inactive feeds updateHeading once: *)
(* with the reported course when the fix carries one (0 included), else     *)
(* with the bearing from the previous accepted position when there is one;  *)
(* with neither there is no heading update.                                 *)
C17_GpsHeadingSourceOrder ==
    (FixCanArrive /\ ~state.isCompassEnabled) =>
        \A pos \in HeadingPositions :
            PassesFilter(pos) =>
                LET fed == OnPosition(Begin(TRUE), pos).out.headings
                IN IF pos.heading # None THEN fed = <<Val(pos.heading)>>
                   ELSE IF state.lastPosition # None
                        THEN fed = <<getBearing(Val(state.lastPosition), pos.latlng)>>
                        ELSE fed = <<>>

(* C17 case: part_001, compass inactive, a previous accepted position; an    *)
(* accepted fix with course 0 feeds nothing, and so does one with no course. *)
C17_Witness ==
    /\ ~IsApp /\ FixCanArrive /\ ~state.isCompassEnabled
    /\ state.lastPosition # None /\ state.userMarker # None
    /\ \E p, q \in HeadingPositions :
          /\ MovedEnough(p) /\ p.heading = Some(0)
          /\ MovedEnough(q) /\ q.heading = None
          /\ OnPosition(Begin(TRUE), p).out.accepted
          /\ OnPosition(Begin(TRUE), p).out.headings = <<>>
          /\ OnPosition(Begin(TRUE), q).out.headings = <<>>

(* Location and orientation are available and orientation needs no consent. *)
FullPlatform == platform.geolocation /\ platform.orientation = "free"

AllThree(s, b) == s.isGpsActive = b /\ s.isLocked = b /\ s.isCompassEnabled = b

(* C18: on a platform with location and orientation and no permission      *)
(* prompt, one press of the unified Start control from a state with         *)
(* isStarted false leaves isGpsActive, isLocked and isCompassEnabled true,  *)
(* and from a state with isStarted true leaves all three false.             *)
C18_StartTogglesAllThree ==
    (~IsApp /\ FullPlatform) =>
        \A inb \in BOOLEAN :
            AllThree(toggleUnifiedStart(Begin(inb)).state, ~state.isStarted)

(* C18 witness: a started session in which the user has switched lock off   *)
(* and GPS and compass are on: one press stops all three, and a press on    *)
(* the stopped session that results starts all three.                       *)
C18_Witness ==
    /\ ~IsApp /\ FullPlatform /\ state.isStarted
    /\ state.isGpsActive /\ ~state.isLocked /\ state.isCompassEnabled
    /\ AllThree(toggleUnifiedStart(Begin(TRUE)).state, FALSE)
    /\ AllThree(toggleUnifiedStart(Then(toggleUnifiedStart(Begin(TRUE)), TRUE)).state, TRUE)

Features == {"gps", "lock", "heading"}

(* The checkbox of a feature. *)
Box(f) == CASE f = "gps" -> "toggleGps" [] f = "lock" -> "toggleLock" [] OTHER -> "toggleHeading"

(* The user clears the checkbox of feature f, from world w. *)
Untick(w, f) == toggleFeature([w EXCEPT !.elements[Box(f)] = FALSE], f, FALSE)

Stopped(w) == ~w.state.isStarted /\ ~w.elements.btnStart

(* C19: in a started session, when the user clears the last checked feature *)
(* checkbox the session is stopped and the Start control shows it; and from *)
(* all three checked, clearing the three one by one, in any order, ends     *)
(* stopped.                                                                 *)
C19_AllFeaturesOffStopsSession ==
    (~IsApp /\ state.isStarted) =>
        /\ \A f \in Features :
               (\A g \in Features : elements[Box(g)] <=> g = f) =>
                   Stopped(Untick(Begin(TRUE), f))
        /\ (\A g \in Features : elements[Box(g)]) =>
               \A f1, f2, f3 \in Features :
                   {f1, f2, f3} = Features =>
                       Stopped(Untick(Then(Untick(Then(Untick(Begin(TRUE), f1), TRUE), f2), TRUE), f3))

(* C19 witness: started, all three features on; after GPS and lock are      *)
(* cleared the session is still started, after heading as well it is not.   *)
C19_Witness ==
    /\ ~IsApp /\ state.isStarted /\ AllThree(state, TRUE)
    /\ \A g \in Features : elements[Box(g)]
    /\ LET w2 == Untick(Then(Untick(Begin(TRUE), "gps"), TRUE), "lock")
       IN /\ w2.state.isStarted /\ w2.elements.btnStart
          /\ Stopped(Untick(Then(w2, TRUE), "heading"))
          /\ AllThree(Untick(Then(w2, TRUE), "heading").state, FALSE)

(* enableCompass of the script the page runs. *)
OnEnableCompass(w) == IF IsApp THEN app_enableCompass(w) ELSE enableCompass(w)

(* C20: where orientation needs consent, enableCompass only asks; when the   *)
(* request is denied or fails one notice is shown and the compass is left as *)
(* it was, so from inactive it stays inactive, with no listener, and the     *)
(* heading of the fixes stays in use; when it is granted the listener is     *)
(* registered and isCompassEnabled is true.                                  *)
C20_CompassConsentOutcome ==
    /\ (platform.orientation = "prompt" /\ ~state.isCompassEnabled) =>
           LET w == OnEnableCompass(Begin(TRUE))
           IN /\ w.state = state /\ w.out.toasts = <<>>
              /\ w.platform = [platform EXCEPT !.pending = @ + 1]
    /\ platform.pending > 0 =>
           \A res \in PermissionResults :
               LET w == OnPermission(Begin(TRUE), res)
               IN IF res = "granted"
                  THEN w.platform.listening /\ w.state.isCompassEnabled
                  ELSE /\ Len(w.out.toasts) = 1
                       /\ w.state = state
                       /\ w.platform.listening = platform.listening
                       /\ ~state.isCompassEnabled => GpsHeadingInUse(w)

(* C20 witness: a consent prompt is open, the compass is inactive with no    *)
(* listener, GPS is running; denial leaves it so, grant switches it on.      *)
C20_Witness ==
    /\ platform.pending > 0 /\ ~state.isCompassEnabled /\ ~platform.listening
    /\ state.isGpsActive /\ FixCanArrive
    /\ ~OnPermission(Begin(TRUE), "denied").state.isCompassEnabled
    /\ ~OnPermission(Begin(TRUE), "denied").platform.listening
    /\ OnPermission(Begin(TRUE), "denied").out.toasts # <<>>
    /\ OnPermission(Begin(TRUE), "granted").state.isCompassEnabled
    /\ OnPermission(Begin(TRUE), "granted").platform.listening

(* ---------------- failure handling, stopping, view events ---------------- *)

(* startGps of the script the page runs. *)
OnStartGps(w) == IF IsApp THEN app_startGps(w) ELSE startGps(w)

(* C21: on a platform with no location capability startGps shows a notice    *)
(* and leaves isGpsActive false with no watch registered; on a platform with *)
(* no orientation capability enableCompass shows a notice and leaves         *)
(* isCompassEnabled false.                                                   *)
C21_MissingCapabilityFailsSoftly ==
    /\ ~platform.geolocation =>
           LET w == OnStartGps(Begin(TRUE))
           IN /\ Len(w.out.toasts) = 1
              /\ ~w.state.isGpsActive /\ w.state.watchId = None
              /\ w.platform.watches = {}
    /\ platform.orientation = "none" =>
           LET w == OnEnableCompass(Begin(TRUE))
           IN /\ Len(w.out.toasts) = 1
              /\ ~w.state.isCompassEnabled /\ ~w.platform.listening

(* C21 case: part_001 on a platform without orientation events, the session *)
(* started: enableCompass leaves the compass off and shows no notice, while *)
(* startGps without location capability does show one.                      *)
C21_Witness ==
    /\ ~IsApp /\ platform.orientation = "none" /\ ~platform.geolocation
    /\ state.isStarted /\ elements.toggleHeading
    /\ enableCompass(Begin(TRUE)).out.toasts = <<>>
    /\ ~enableCompass(Begin(TRUE)).state.isCompassEnabled
    /\ startGps(Begin(TRUE)).out.toasts = <<"GPS not supported">>

(* What a handler run leaves behind: the page's objects without the outputs. *)
Left(w) == <<w.state, w.elements, w.map, w.platform>>

(* The session fields a location error must leave alone. *)
SessionCore(s) == <<s.isGpsActive, s.watchId, s.lastPosition, s.isLocked, s.hasInitialZoomed>>

(* Good fixes at each point of the line, as the watch delivers them after an error. *)
LaterFixes == [latlng : Points, accuracy : {40}, heading : {Some(90)}]

(* C22: a location error of any class does not end the session: the handler *)
(* leaves isGpsActive, the watch id, the last accepted position, isLocked    *)
(* and the initial-zoom flag as they are and cancels no watch; the page is   *)
(* as it was, and a fix that arrives afterwards is handled as it would have  *)
(* been without the error.                                                   *)
C22_LocationErrorKeepsSession ==
    FixCanArrive =>
        \A code \in ErrorCodes :
            LET w == OnPositionError(Begin(TRUE), code)
            IN /\ SessionCore(w.state) = SessionCore(state)
               /\ w.platform.watches = platform.watches
               /\ Left(w) = Left(Begin(TRUE))
               /\ \A pos \in LaterFixes :
                      OnPosition(Then(w, FALSE), pos) = OnPosition(Begin(FALSE), pos)

(* C22 witness: GPS running and locked on an accepted fix, the initial zoom  *)
(* done; permission denied and timeout both show a notice and keep the       *)
(* session, and the next good fix is accepted and followed.                  *)
C22_Witness ==
    /\ FixCanArrive /\ state.isGpsActive /\ state.isLocked
    /\ state.lastPosition # None /\ state.watchId # None
    /\ ~IsApp => state.hasInitialZoomed
    /\ \A code \in {1, 3} :
          LET w == OnPositionError(Begin(TRUE), code)
          IN /\ Len(w.out.toasts) = 1
             /\ SessionCore(w.state) = SessionCore(state)
             /\ Val(w.state.watchId) \in w.platform.watches
             /\ \E pos \in Positions :
                   /\ MovedEnough(pos)
                   /\ OnPosition(Then(w, TRUE), pos).out.accepted
                   /\ Len(OnPosition(Then(w, TRUE), pos).out.cam) = 1

(* stopGps and disableCompass of the script the page runs. *)
OnStopGps(w) == IF IsApp THEN app_stopGps(w) ELSE stopGps(w)

OnDisableCompass(w) == IF IsApp THEN app_disableCompass(w) ELSE disableCompass(w)

(* C23: stopGps called with GPS already stopped, and disableCompass called  *)
(* with the compass already inactive, leave every session field as it is,   *)
(* and stopGps run twice leaves what stopGps run once leaves.               *)
C23_StoppingIsIdempotent ==
    /\ ~state.isGpsActive => OnStopGps(Begin(TRUE)).state = state
    /\ ~state.isCompassEnabled => Left(OnDisableCompass(Begin(TRUE))) = Left(Begin(TRUE))
    /\ Left(OnStopGps(Then(OnStopGps(Begin(TRUE)), TRUE))) = Left(OnStopGps(Begin(TRUE)))

(* C23 case: part_001, the session started, GPS switched off, and a watch  *)
(* still registered that has delivered a fix since: the marker is on the   *)
(* map with isGpsActive false, and pressing Start to stop the session runs *)
(* stopGps, which removes the marker and the last position.                *)
C23_Witness ==
    /\ ~IsApp /\ state.isStarted /\ ~elements.toggleGps
    /\ ~state.isGpsActive /\ state.watchId = None /\ FixCanArrive
    /\ state.lastPosition # None /\ state.userMarker # None
    /\ toggleUnifiedStart(Begin(TRUE)).state.userMarker = None
    /\ toggleUnifiedStart(Begin(TRUE)).state.lastPosition = None
    /\ stopGps(Begin(TRUE)).state # state

(* Nothing of the user's position is left: no last accepted position, no *)
(* marker and no accuracy circle on the map.                             *)
PositionCleared(s) == s.lastPosition = None /\ s.userMarker = None /\ s.accuracyCircle = None

(* C24: from any state, when stopGps returns the last accepted position is *)
(* absent and neither the user marker nor the accuracy circle is on the    *)
(* map; so it is after the control that switches GPS off.                  *)
C24_StopGpsClearsPosition ==
    /\ PositionCleared(OnStopGps(Begin(TRUE)).state)
    /\ CanSwitchGpsOff => PositionCleared(SwitchGpsOff.state)

(* C24 witness: GPS running with an accepted fix, the marker and its       *)
(* accuracy circle on the map; switching GPS off leaves none of the three. *)
C24_Witness ==
    /\ state.isGpsActive /\ CanSwitchGpsOff
    /\ state.lastPosition # None /\ state.userMarker # None /\ state.accuracyCircle # None
    /\ PositionCleared(SwitchGpsOff.state)
    /\ ~SwitchGpsOff.state.isGpsActive

(* The stop of the session: the GPS button of app.js while GPS is on, the *)
(* Start button of part_001 while the session is started.                 *)
CanStopSession == IF IsApp THEN state.isGpsActive ELSE state.isStarted

StopSession == IF IsApp THEN toggleGps(Begin(TRUE)) ELSE toggleUnifiedStart(Begin(TRUE))

(* The next heading sample, whatever it is, is adopted from world w. *)
AdoptsAnySample(w) ==
    \A h \in HeadingSamples :
        LET w1 == OnHeading(Then(w, TRUE), h)
        IN /\ IsApp => w1.state.lastHeading = Some(h)
           /\ w1.state.userMarker # None => Arrow(w1.state) = Some(h)

(* C25: after disableCompass, and after a stop of the session, no last      *)
(* heading is stored, so the next heading sample is adopted however close   *)
(* it is to the last compass heading.                                       *)
C25_HeadingForgottenOnDisableAndStop ==
    /\ state.isCompassEnabled =>
           /\ OnDisableCompass(Begin(TRUE)).state.lastHeading = None
           /\ AdoptsAnySample(OnDisableCompass(Begin(TRUE)))
    /\ CanStopSession =>
           /\ StopSession.state.lastHeading = None
           /\ AdoptsAnySample(StopSession)

(* C25 case: app.js, compass on, the arrow at the compass heading 90; after *)
(* disableCompass the stored heading is still 90 and a sample of 94 is      *)
(* dropped; after stopGps the stored heading is still 90 as well.           *)
C25_Witness ==
    /\ IsApp /\ state.isCompassEnabled /\ state.isGpsActive
    /\ state.userMarker # None /\ state.lastHeading = Some(90) /\ Arrow(state) = Some(90)
    /\ app_disableCompass(Begin(TRUE)).state.lastHeading = Some(90)
    /\ Arrow(app_updateHeading(Then(app_disableCompass(Begin(TRUE)), TRUE), 94).state) = Some(90)
    /\ toggleGps(Begin(TRUE)).state.lastHeading = Some(90)

(* ---------------- the gpx parameter ---------------- *)

(* Letters and digits, dash and underscore: what a track's name may be made of. *)
NameChars == {"a", "z", "Z", "7", "g", "p", "x", "G", "P", "X", "-", "_"}

(* A name of such characters only, followed by the suffix .gpx (in any case). *)
NameAllowed(f) ==
    /\ Len(f) >= 5
    /\ toLowerCase(SubSeq(f, Len(f) - 3, Len(f))) = <<".", "g", "p", "x">>
    /\ \A i \in 1..(Len(f) - 4) : f[i] \in NameChars

ParamAllowed == platform.gpxParam # None /\ NameAllowed(Val(platform.gpxParam))

(* C26: the track layer is created only for a gpx parameter made of letters, *)
(* digits, dashes and underscores followed by .gpx; for every other         *)
(* parameter, one with a further dot in the name included, loadGpxFromQuery  *)
(* shows a notice and creates no layer.                                      *)
C26_LoaderOnlyForPlainGpxName ==
    /\ state.gpxLayer # None => ParamAllowed
    /\ elements.trackTitle = "" =>
           LET w == OnLoadGpx(Begin(TRUE))
           IN IF ParamAllowed
              THEN w.state.gpxLayer = Some("loading") /\ w.out.toasts = <<>>
              ELSE w.state.gpxLayer = None /\ Len(w.out.toasts) = 1

(* C26 case: the parameter is a name with a further dot, a.Z.gpx, and the *)
(* track layer has been created and is loading.                           *)
C26_Witness ==
    /\ platform.gpxParam = Some(<<"a", ".", "Z", ".", "g", "p", "x">>)
    /\ state.gpxLayer = Some("loading")
    /\ elements.trackTitle = "Loading..."

(* ---------------- range of the heading ---------------- *)

(* A heading in degrees, at least 0 and below 360, or no heading. *)
InCircle(o) == o = None \/ (Val(o) >= 0 /\ Val(o) < 360)

(* C27: with orientation events whose alpha is in [0,360) and fixes whose  *)
(* course is in [0,360), the stored last heading and the rotation of the   *)
(* arrow are in [0,360) in every reachable state; alpha = 0 does not leave *)
(* a heading of 360.                                                       *)
C27_AdoptedHeadingInCircle == InCircle(state.lastHeading) /\ InCircle(Arrow(state))

(* C27 case: app.js, compass on with the marker on the map; an orientation *)
(* event with alpha = 0 has been handled and the stored heading, the       *)
(* compass heading and the arrow are 360.                                  *)
C27_Witness ==
    /\ IsApp /\ state.isCompassEnabled /\ state.userMarker # None
    /\ state.lastHeading = Some(360) /\ state.compassHeading = Some(360)
    /\ Arrow(state) = Some(360)

(* ---------------- who switches lock off ---------------- *)

(* A step of one of the events that may switch lock off: a drag start by the *)
(* user, the lock control, a stop (the Start button of a started session,    *)
(* the GPS button of app.js while GPS is on).                                *)
UnlockStep ==
    \/ DragStart
    \/ \E inb \in BOOLEAN : ChangeToggleLock(inb)
    \/ ClickLock
    \/ state.isStarted /\ \E inb \in BOOLEAN : ClickStart(inb)
    \/ state.isGpsActive /\ ClickGps

(* C28: isLocked goes from true to false only in a step of a user drag      *)
(* start, of the lock control or of a stop; a position update, a lock entry *)
(* and the zoomend event of the setView they issue never switch lock off.   *)
C28_OwnCameraCommandsKeepLock ==
    [][(state.isLocked /\ ~state.isLocked') => UnlockStep]_vars

(* C28 witness: locked, a follow setView has changed the zoom and its       *)
(* zoomend is due; the zoomend handler leaves lock on, and so does the next *)
(* fix, which moves the camera again.                                       *)
C28_Witness ==
    /\ state.isLocked /\ state.isGpsActive /\ FixCanArrive
    /\ map.zoomEndPending /\ map.zoom = trackingZoom
    /\ OnViewSettled([Begin(TRUE) EXCEPT !.map.zoomEndPending = FALSE]).state.isLocked
    /\ \E pos \in Positions :
          /\ OnPosition(Begin(TRUE), pos).out.cam # <<>>
          /\ OnPosition(Begin(TRUE), pos).state.isLocked

(* ---------------- the position watch ---------------- *)

(* The watches state.watchId accounts for. *)
KnownWatches == IF state.watchId = None THEN {} ELSE {Val(state.watchId)}

(* C29: at every moment at most one position watch is registered and        *)
(* state.watchId identifies it; when stopGps returns no watch is registered, *)
(* and while isGpsActive is false none is, so that no position callback can  *)
(* run and no marker is created.                                             *)
C29_OneWatchKnownByWatchId ==
    /\ Cardinality(platform.watches) <= 1
    /\ platform.watches = KnownWatches
    /\ OnStopGps(Begin(TRUE)).platform.watches = {}
    /\ ~state.isGpsActive => (platform.watches = {} /\ state.userMarker = None)

(* C29 case: part_001, GPS switched on through its checkbox and then Start  *)
(* pressed, and Start pressed again to stop: the session is stopped, watchId *)
(* is null, and a watch is still registered whose fix has put the marker on  *)
(* the map.                                                                  *)
C29_Witness ==
    /\ ~IsApp /\ ~state.isStarted /\ ~state.isGpsActive /\ ~elements.toggleGps
    /\ state.watchId = None /\ Cardinality(platform.watches) = 1
    /\ state.userMarker # None
    /\ \E pos \in Positions : OnPosition(Begin(TRUE), pos).out.accepted

(* ---------------- the consent that arrives late ---------------- *)

(* The user's most recent compass request stands: in part_001 the heading   *)
(* checkbox is ticked (Start ticks it, Stop clears it); in app.js, where    *)
(* the compass button can only ask while GPS is on and never withdraws a    *)
(* pending request, GPS has not been stopped since.                         *)
CompassWanted == IF IsApp THEN state.isGpsActive ELSE elements.toggleHeading

(* C30: isCompassEnabled is true only while the user's most recent compass  *)
(* request is an enable; a consent granted after disableCompass, the        *)
(* unified Stop or stopGps has run registers no listener and leaves         *)
(* isCompassEnabled false.                                                  *)
C30_LateConsentDoesNotEnable ==
    /\ state.isCompassEnabled => CompassWanted
    /\ (platform.pending > 0 /\ ~CompassWanted) =>
           /\ ~OnPermission(Begin(TRUE), "granted").state.isCompassEnabled
           /\ ~OnPermission(Begin(TRUE), "granted").platform.listening

(* C30 case: part_001, the compass asked for and given up again (Start and *)
(* Stop, or the heading checkbox ticked and cleared) while the consent     *)
(* prompt was open; the consent has been granted since: the listener is    *)
(* registered and isCompassEnabled is true with the checkbox clear and the *)
(* session stopped.                                                        *)
C30_Witness ==
    /\ ~IsApp /\ platform.orientation = "prompt" /\ platform.pending = 0
    /\ ~elements.toggleHeading /\ ~state.isStarted
    /\ state.isCompassEnabled /\ platform.listening

(* ---------------- the controls and the session ---------------- *)

(* Some feature checkbox of the unified control is ticked. *)
SomeFeatureTicked == \E f \in Features : elements[Box(f)]

(* C31: in every reachable state, if isStarted is true then at least one of *)
(* the three feature toggles is on: with all three off, by whatever path,    *)
(* a drag start that switches off the last one included, the unified         *)
(* control is stopped.                                                       *)
C31_StartedOnlyWithSomeFeature ==
    /\ state.isStarted => SomeFeatureTicked
    /\ (state.isStarted /\ elements.toggleLock /\ ~elements.toggleGps /\ ~elements.toggleHeading) =>
           Stopped(OnDragStart(Begin(TRUE)))

(* C31 case: part_001, the session started and only lock left ticked; the   *)
(* user has dragged the map since: no checkbox is ticked, none of the three *)
(* features is on, and the session is still started with Start showing it.  *)
C31_Witness ==
    /\ ~IsApp /\ state.isStarted /\ elements.btnStart
    /\ ~SomeFeatureTicked
    /\ AllThree(state, FALSE)

(* C32: in the script with the lock checkbox, in every reachable state the *)
(* checkbox shown to the user is ticked exactly when isLocked is true,     *)
(* across Start and Stop, the fine-grained toggles, drag start and the end *)
(* of a drag or zoom.                                                      *)
C32_LockCheckboxShowsLock ==
    ~IsApp => (elements.toggleLock <=> state.isLocked)

(* C32 witness: a started session with GPS on in which a drag start has    *)
(* switched lock off and cleared the checkbox; the end of the drag         *)
(* switches lock on and ticks it, a further drag start clears both again.  *)
C32_Witness ==
    /\ ~IsApp /\ state.isStarted /\ state.isGpsActive
    /\ ~state.isLocked /\ ~elements.toggleLock
    /\ LET w == OnViewSettled(Begin(TRUE))
       IN /\ w.state.isLocked /\ w.elements.toggleLock
          /\ ~OnDragStart(Then(w, TRUE)).state.isLocked
          /\ ~OnDragStart(Then(w, TRUE)).elements.toggleLock

(* ---------------- the marker and the stored position ---------------- *)

(* C33, as stated: whenever a user marker is rendered, its position equals *)
(* the last accepted position.                                             *)
C33_MarkerAtLastPosition ==
    state.userMarker # None => MarkerPlace(state) = state.lastPosition

(* Fixes on each side of the marker gate. *)
MarkerFixes ==
    [latlng : Points, accuracy : {MarkerAccuracy - 1, MarkerAccuracy}, heading : {None}]

(* The script draws the fix: app.js draws every accepted fix, part_001 one *)
(* with accuracy below 100 m.                                              *)
Drawn(pos) == IsApp \/ pos.accuracy < MarkerAccuracy

(* C33, amended: a rendered marker goes with a stored position; every      *)
(* accepted fix that is drawn leaves the marker at the last accepted       *)
(* position, and an accepted fix that is not drawn (accuracy of 100 m or   *)
(* more in part_001) moves the stored position and leaves the marker where *)
(* it was, so the marker is at the last accepted position that was drawn.  *)
C33_MarkerAtLastDrawnPosition ==
    /\ state.userMarker # None => state.lastPosition # None
    /\ FixCanArrive =>
           \A pos \in MarkerFixes :
               LET w == OnPosition(Begin(TRUE), pos)
               IN w.out.accepted =>
                      /\ w.state.lastPosition = Some(pos.latlng)
                      /\ IF Drawn(pos)
                         THEN MarkerPlace(w.state) = w.state.lastPosition
                         ELSE MarkerPlace(w.state) = MarkerPlace(state)

(* C33 witness: part_001, the marker on the map at an older position than  *)
(* the stored one, after an accepted fix that was not drawn; a further     *)
(* poor fix moves the stored position only, a good one brings the marker   *)
(* to the stored position.                                                 *)
C33_Witness ==
    /\ ~IsApp /\ FixCanArrive /\ state.userMarker # None
    /\ MarkerPlace(state) # state.lastPosition
    /\ \E p, q \in Positions :
          LET wp == OnPosition(Begin(TRUE), p)
              wq == OnPosition(Begin(TRUE), q)
          IN /\ p.accuracy > MarkerAccuracy /\ wp.out.accepted
             /\ MarkerPlace(wp.state) = MarkerPlace(state)
             /\ wp.state.lastPosition = Some(p.latlng)
             /\ q.accuracy < MarkerAccuracy /\ wq.out.accepted
             /\ MarkerPlace(wq.state) = Some(q.latlng)
             /\ wq.state.lastPosition = Some(q.latlng)

(* ---------------- the chain of view events ---------------- *)

(* The map emits the zoomend that is due and the page handles it. *)
HandleZoomEnd(w, inb) == OnViewSettled([Then(w, inb) EXCEPT !.map.zoomEndPending = FALSE])

(* The number of zoomend events handled from world w until none is due, *)
(* counted up to MaxChain; MaxChain + 1 when one is still due then.     *)
RECURSIVE ChainFrom(_, _, _)
ChainFrom(w, inb, fuel) ==
    IF ~w.map.zoomEndPending THEN 0
    ELSE IF fuel = 0 THEN 1
         ELSE 1 + ChainFrom(HandleZoomEnd(w, inb), inb, fuel - 1)

(* Zoom levels of the map's range: its ends, and the levels at and next to *)
(* the tracking zoom.                                                      *)
ChainZooms == {0, trackingZoom - 1, trackingZoom, trackingZoom + 1, maxZoom}

(* The map at zoom level z, in the state as it is, with its zoomend due. *)
ZoomedTo(z) == [Begin(FALSE) EXCEPT !.map.zoom = z, !.map.zoomEndPending = TRUE]

(* C34: an external event starts only a finite chain of handler runs: in   *)
(* every reachable state the zoomend events due, at each level of the      *)
(* map's zoom range, are handled in at most two runs, the setView of       *)
(* setLockMode in the zoomend handler raising a further zoomend at most    *)
(* once; and for every current zoom and tracking zoom of the range the     *)
(* zoom that setView asks for is one it leaves unchanged when asked again. *)
C34_ViewEventChainIsFinite ==
    [](/\ \A z \in ChainZooms : ChainFrom(ZoomedTo(z), FALSE, MaxChain) <= 2
       /\ map.zoomEndPending =>
              /\ \A inb \in BOOLEAN : ChainFrom(Begin(inb), inb, MaxChain) <= 2
              /\ \A z, t \in 0..maxZoom :
                     LockTargetZoom(LockTargetZoom(z, t), t) = LockTargetZoom(z, t))

(* C34 witness: part_001, the session started with GPS on and a fix        *)
(* accepted, the map zoomed out below the tracking zoom and its zoomend    *)
(* due: the handler's setLockMode zooms to the tracking zoom, which raises *)
(* one more zoomend, and the handler run for that one raises none.         *)
C34_Witness ==
    /\ ~IsApp /\ state.isStarted /\ state.isGpsActive /\ state.lastPosition # None
    /\ map.zoom = defaultZoom
    /\ LET w == ZoomedTo(map.zoom)
       IN /\ HandleZoomEnd(w, FALSE).map.zoomEndPending
          /\ HandleZoomEnd(w, FALSE).map.zoom = trackingZoom
          /\ ~HandleZoomEnd(HandleZoomEnd(w, FALSE), FALSE).map.zoomEndPending
          /\ ChainFrom(w, FALSE, MaxChain) = 2

====
